---- MODULE Spec2Model ----
(***************************************************************************)
(* A model of the musicality player front end:                             *)
(*   - useBeatSync (hooks/useBeatSync.ts): the pure mapping of a playback  *)
(*     time onto beat / bar-cycle / subdivision indices;                   *)
(*   - useStemPlayer (hooks/useStemPlayer.ts): the multi-track transport   *)
(*     with its single-stream fallback, and the mute/solo mixer.           *)
(*   - useAnalysis (hooks/useAnalysis.ts): the submission of an analysis   *)
(*     job and the loop that polls it.                                     *)
(*                                                                         *)
(* Times of the beat grid are integers in an arbitrary unit: the code only *)
(* compares times and halves the sum of two of them, and the comparison    *)
(* with a midpoint (a + b) / 2 is made exactly as 2 * t >= a + b.          *)
(* Times of the player are integers too: one unit is the tolerance of the  *)
(* end-of-track test, stems last one to three units and a skip moves by    *)
(* two, so that a skip can be clamped at either end or at neither.         *)
(***************************************************************************)
EXTENDS Integers, Sequences, FiniteSets, TLC

VARIABLES
    syncProps,   \* the arguments of useBeatSync: [beats, bars, currentTime]
    sync,        \* what useBeatSync computed for them at the last render
    \* useStemPlayer: React state
    isPlaying, currentTime, duration, isLoading, stemsAvailable,
    mutedStems, soloedStem,
    \* useStemPlayer: refs
    ctxRef,        \* the AudioContext of load number ctxRef; 0 is null
    sourcesRef,    \* stem -> the source node started for it
    gainsRef,      \* stem -> its gain node: its AudioContext and gain.value
    buffersRef,    \* stem -> its decoded buffer
    rafRef,        \* the handle of the animation frame requested last, or Null
    audioRef,      \* the fallback Audio element of load number audioRef; 0 is null
    startTimeRef, offsetRef,
    \* the environment of useStemPlayer
    loads,         \* per load() call so far: "pending" or "settled"
    ctxTime,       \* currentTime of the newest AudioContext
    firstSource,   \* the source carrying onended, or Null
    endedQueue,    \* 'ended' events of stopped sources not yet delivered
    audios,        \* load number -> the Audio element made by its fallback
    tasks,         \* per load() call: the stem tasks fulfilled and rejected so far
    openCtx,       \* the loads whose AudioContext is open
    frames,        \* the tick closures whose animation frame is pending
    mounted,       \* the component that uses the hook is mounted
    \* useAnalysis
    analysis,      \* React state: [status, progress, error, result, jobId]; jobId 0 is null
    abortRef,      \* the controller of the poll loop started last; 0 is null
    submits,       \* per submit() call: its POST "pending", "accepted" or "rejected"
    polls,         \* per AbortController: the poll loop that carries it
    \* history
    raised,        \* the last call of the hook's interface threw
    alt,           \* play/pause alternation since the bank became available
    playedTotal    \* clock time spent between a play() and the next pause()

syncVars == <<syncProps, sync>>

stateVars == <<isPlaying, currentTime, duration, isLoading, stemsAvailable>>

refVars ==
    <<ctxRef, sourcesRef, gainsRef, buffersRef, rafRef, audioRef, startTimeRef, offsetRef>>

envVars == <<loads, ctxTime, firstSource, endedQueue, audios>>

loaderVars == <<tasks, openCtx>>

historyVars == <<raised, alt, playedTotal>>

mixerVars == <<mutedStems, soloedStem>>

playerVars ==
    <<stateVars, mixerVars, refVars, envVars, loaderVars, historyVars, frames, mounted>>

analysisVars == <<analysis, abortRef, submits, polls>>

\* what the actions of the player leave alone
hostVars == <<mounted, syncVars, analysisVars>>

vars == <<syncVars, playerVars, analysisVars>>

\* ------------------------------------------------------------------------
\* Bounds of the beat-grid inputs
\* ------------------------------------------------------------------------
MaxBeats == 3        \* longest beat / bar sequence of the generic inputs
MaxTime == 4         \* largest beat time / bar start of the generic inputs

\* beat_num values of the generic inputs: below 1, the 8-count's ends, above 8
BeatNums == {0, 1, 2, 8, 9}

Max(S) == CHOOSE x \in S : \A y \in S : y <= x

Min2(a, b) == IF a <= b THEN a ELSE b

Max2(a, b) == IF a >= b THEN a ELSE b

\* JavaScript's null
Null == [null |-> TRUE]

\* ------------------------------------------------------------------------
\* useBeatSync.ts
\* ------------------------------------------------------------------------

\* the while loop of binarySearchFloor: beats is 0-indexed in the source
RECURSIVE BeatFloorLoop(_, _, _, _, _)
BeatFloorLoop(beats, time, lo, hi, result) ==
    IF lo <= hi
    THEN LET mid == (lo + hi) \div 2
         IN  IF beats[mid + 1].time <= time
             THEN BeatFloorLoop(beats, time, mid + 1, hi, mid)
             ELSE BeatFloorLoop(beats, time, lo, mid - 1, result)
    ELSE result

\* a search that takes only beats strictly before the time (mutant)
RECURSIVE BeatFloorLoopStrict(_, _, _, _, _)
BeatFloorLoopStrict(beats, time, lo, hi, result) ==
    IF lo <= hi
    THEN LET mid == (lo + hi) \div 2
         IN  IF beats[mid + 1].time < time
             THEN BeatFloorLoopStrict(beats, time, mid + 1, hi, mid)
             ELSE BeatFloorLoopStrict(beats, time, lo, mid - 1, result)
    ELSE result

binarySearchFloorStrict(beats, time) ==
    BeatFloorLoopStrict(beats, time, 0, Len(beats) - 1, -1)

binarySearchFloor(beats, time) ==
    BeatFloorLoop(beats, time, 0, Len(beats) - 1, -1)

RECURSIVE BarFloorLoop(_, _, _, _, _)
BarFloorLoop(bars, time, lo, hi, result) ==
    IF lo <= hi
    THEN LET mid == (lo + hi) \div 2
         IN  IF bars[mid + 1].start <= time
             THEN BarFloorLoop(bars, time, mid + 1, hi, mid)
             ELSE BarFloorLoop(bars, time, lo, mid - 1, result)
    ELSE result

binarySearchBarFloor(bars, time) ==
    BarFloorLoop(bars, time, 0, Len(bars) - 1, -1)

\* the bar index itself, not the index of the pair of bars (mutant)
currentBarNumUnpaired(bars, time) ==
    LET barIdx == binarySearchBarFloor(bars, time)
    IN  IF barIdx < 0 THEN 0 ELSE barIdx

\* useMemo of currentBarNum: the 8-count cycle, a pair of bars
currentBarNumOf(bars, time) ==
    LET barIdx == binarySearchBarFloor(bars, time)
    IN  IF barIdx < 0 THEN 0 ELSE barIdx \div 2

\* the subdivision without the final Math.min(.., 15) (mutant)
currentSubdivisionUnclamped(beats, currentBeatIdx, currentBeatNum, time) ==
    IF currentBeatIdx < 0 \/ Len(beats) = 0 THEN 0
    ELSE LET onBeatSubdiv == (currentBeatNum - 1) * 2
             nextBeatIdx == currentBeatIdx + 1
         IN  IF onBeatSubdiv < 0 THEN 0
             ELSE IF /\ nextBeatIdx < Len(beats)
                     /\ 2 * time >=
                          beats[currentBeatIdx + 1].time + beats[nextBeatIdx + 1].time
                  THEN onBeatSubdiv + 1
                  ELSE onBeatSubdiv

\* the subdivision with the midpoint itself left to the on-beat slot (mutant)
currentSubdivisionPastMid(beats, currentBeatIdx, currentBeatNum, time) ==
    IF currentBeatIdx < 0 \/ Len(beats) = 0 THEN 0
    ELSE LET onBeatSubdiv == (currentBeatNum - 1) * 2
             nextBeatIdx == currentBeatIdx + 1
         IN  IF onBeatSubdiv < 0 THEN 0
             ELSE IF /\ nextBeatIdx < Len(beats)
                     /\ 2 * time >
                          beats[currentBeatIdx + 1].time + beats[nextBeatIdx + 1].time
                  THEN Min2(onBeatSubdiv + 1, 15)
                  ELSE Min2(onBeatSubdiv, 15)

\* the off-beat slot taken before the midpoint instead of after it (mutant)
currentSubdivisionFlipped(beats, currentBeatIdx, currentBeatNum, time) ==
    IF currentBeatIdx < 0 \/ Len(beats) = 0 THEN 0
    ELSE LET onBeatSubdiv == (currentBeatNum - 1) * 2
             nextBeatIdx == currentBeatIdx + 1
         IN  IF onBeatSubdiv < 0 THEN 0
             ELSE IF /\ nextBeatIdx < Len(beats)
                     /\ 2 * time <=
                          beats[currentBeatIdx + 1].time + beats[nextBeatIdx + 1].time
                  THEN Min2(onBeatSubdiv + 1, 15)
                  ELSE Min2(onBeatSubdiv, 15)

\* useMemo of currentSubdivision; time >= midpoint, the midpoint being
\* (beats[currentBeatIdx].time + beats[nextBeatIdx].time) / 2
currentSubdivisionOf(beats, currentBeatIdx, currentBeatNum, time) ==
    IF currentBeatIdx < 0 \/ Len(beats) = 0 THEN 0
    ELSE LET onBeatSubdiv == (currentBeatNum - 1) * 2
             nextBeatIdx == currentBeatIdx + 1
         IN  IF onBeatSubdiv < 0 THEN 0
             ELSE IF /\ nextBeatIdx < Len(beats)
                     /\ 2 * time >=
                          beats[currentBeatIdx + 1].time + beats[nextBeatIdx + 1].time
                  THEN Min2(onBeatSubdiv + 1, 15)
                  ELSE Min2(onBeatSubdiv, 15)

\* a hook that reports the first beat when no beat is located (mutant)
useBeatSyncFirstBeat(beats, bars, time) ==
    LET found == binarySearchFloor(beats, time)
        currentBeatIdx == IF found < 0 /\ Len(beats) > 0 THEN 0 ELSE found
        currentBeat == IF currentBeatIdx >= 0 THEN beats[currentBeatIdx + 1] ELSE Null
        currentBeatNum == IF currentBeat # Null THEN currentBeat.beat_num ELSE 0
    IN  [currentBeatIdx |-> currentBeatIdx,
         currentBeat |-> currentBeat,
         currentBeatNum |-> currentBeatNum,
         currentBarNum |-> currentBarNumOf(bars, time),
         currentSubdivision |->
             currentSubdivisionOf(beats, currentBeatIdx, currentBeatNum, time)]

\* one render of useBeatSync; currentBeatIdx is the hook's memoised index
useBeatSync(beats, bars, time) ==
    LET currentBeatIdx == binarySearchFloor(beats, time)
        currentBeat == IF currentBeatIdx >= 0 THEN beats[currentBeatIdx + 1] ELSE Null
        currentBeatNum == IF currentBeat # Null THEN currentBeat.beat_num ELSE 0
    IN  [currentBeatIdx |-> currentBeatIdx,
         currentBeat |-> currentBeat,
         currentBeatNum |-> currentBeatNum,
         currentBarNum |-> currentBarNumOf(bars, time),
         currentSubdivision |->
             currentSubdivisionOf(beats, currentBeatIdx, currentBeatNum, time)]

\* ------------------------------------------------------------------------
\* useStemPlayer.ts.  Times are integers, one unit being the 0.1 s of the
\* end-of-track tolerance.  React state is taken as committed between any
\* two handlers: every callback closes over the state of the latest render.
\* ------------------------------------------------------------------------
MaxLoads == 1          \* load() calls of one run of the transport
MaxOverlap == 2        \* load() calls of one run of the loader
MaxClock == 4          \* how far an AudioContext's clock runs
MaxPendingEnded == 1   \* 'ended' events queued at once
ShortStem == 1         \* duration of the drums buffer
LongStem == 3          \* duration of every other stem buffer
MixDuration == 2       \* duration of the mixed audio of the fallback
MaxSubmits == 2        \* submit() calls of one run of useAnalysis
MaxPolls == 2          \* requests one poll loop issues

\* pos >= duration - 0.1
Tolerance == 1

\* the number NaN, written as a value no time of the model can take
NaN == 0 - 1000

IsNaN(x) == x = NaN

\* a + b, a >= b, Math.min(a, b) and Math.max(a, b) of JavaScript numbers
Plus(a, b) == IF IsNaN(a) \/ IsNaN(b) THEN NaN ELSE a + b

Geq(a, b) == ~IsNaN(a) /\ ~IsNaN(b) /\ a >= b

MathMin(a, b) == IF IsNaN(a) \/ IsNaN(b) THEN NaN ELSE Min2(a, b)

MathMax(a, b) == IF IsNaN(a) \/ IsNaN(b) THEN NaN ELSE Max2(a, b)

STEM_NAMES == <<"drums", "bass", "vocals", "guitar", "piano", "other">>

Stems == {STEM_NAMES[i] : i \in 1..Len(STEM_NAMES)}

\* buffer.duration of a decoded stem
StemDuration(stem) == IF stem = "drums" THEN ShortStem ELSE LongStem

\* the outcomes of the six fetch+decode tasks: the stems that were fulfilled
Outcomes == SUBSET Stems

\* the outcomes the transport is exercised with: none, all six (the first
\* source is the short drums), four of six (the first source is long), and
\* the short drums alone (a bank of another duration)
SampleOutcomes == {{}, Stems, Stems \ {"drums", "bass"}, {"drums"}}

\* seek targets: below 0, inside the track, beyond its end, not a number
SeekTargets == {0 - 1, 1, LongStem + 1, NaN}

\* the values offsetRef is followed over
Offsets == ((0 - MaxClock)..(LongStem + MaxClock)) \cup {NaN}

NoMap == << >>

\* soloedStem null
NoSolo == "null"

\* applyGains(muted, soloed) over the gain nodes of gains
applyGains(gains, muted, soloed) ==
    [stem \in DOMAIN gains |->
        [gains[stem] EXCEPT !.value =
            IF soloed # NoSolo
            THEN IF stem = soloed THEN 1 ELSE 0
            ELSE IF stem \in muted THEN 0 ELSE 1]]

\* the effect on [mutedStems, soloedStem, stemsAvailable], run after a render
\* that changed one of them (depsChanged) and committed muted, soloed, avail
GainsEffect(depsChanged, gains, muted, soloed, avail) ==
    IF depsChanged /\ avail THEN applyGains(gains, muted, soloed) ELSE gains

PlayerInit ==
    /\ isPlaying = FALSE
    /\ currentTime = 0
    /\ duration = 0
    /\ isLoading = FALSE
    /\ stemsAvailable = FALSE
    /\ mutedStems = {}
    /\ soloedStem = NoSolo
    /\ ctxRef = 0
    /\ sourcesRef = NoMap
    /\ gainsRef = NoMap
    /\ buffersRef = NoMap
    /\ rafRef = Null
    /\ frames = << >>
    /\ mounted = TRUE
    /\ audioRef = 0
    /\ startTimeRef = 0
    /\ offsetRef = 0
    /\ loads = << >>
    /\ ctxTime = 0
    /\ firstSource = Null
    /\ endedQueue = << >>
    /\ audios = NoMap
    /\ tasks = << >>
    /\ openCtx = {}
    /\ raised = FALSE
    /\ alt = "off"
    /\ playedTotal = 0

\* ctx.currentTime - startTimeRef.current
Elapsed == ctxTime - startTimeRef

\* stopSources: source.stop() on every source, then the map is cleared; a
\* stopped source that has not ended yet dispatches 'ended' later, and only
\* the first source carries a handler
StoppedQueue ==
    IF firstSource # Null /\ ~firstSource.done
    THEN Append(endedQueue, firstSource.closureDuration)
    ELSE endedQueue

CanStop == Len(StoppedQueue) <= MaxPendingEnded

stopSources ==
    /\ endedQueue' = StoppedQueue
    /\ sourcesRef' = NoMap
    /\ firstSource' = Null

\* the first key of buffersRef in insertion order, which is STEM_NAMES' order
FirstStem(bufs) ==
    STEM_NAMES[CHOOSE i \in 1..Len(STEM_NAMES) :
        /\ STEM_NAMES[i] \in DOMAIN bufs
        /\ \A j \in 1..(i - 1) : STEM_NAMES[j] \notin DOMAIN bufs]

\* the sources startSources(offset) creates: one per buffer, connected to
\* the stem's gain node when there is one
NewSources(offset) ==
    [stem \in DOMAIN buffersRef |->
        [load |-> buffersRef[stem].load,
         offset |-> offset,
         gain |-> IF stem \in DOMAIN gainsRef THEN gainsRef[stem].ctx ELSE 0]]

NewFirstSource(offset) ==
    IF DOMAIN buffersRef = {} THEN Null
    ELSE [stem |-> FirstStem(buffersRef),
          dur |-> buffersRef[FirstStem(buffersRef)].dur,
          offset |-> offset,
          at |-> ctxTime,
          closureDuration |-> duration,
          done |-> FALSE]

\* the first pass of the loop of startSources throws: source.connect(gain)
\* an InvalidAccessError on a gain node of another AudioContext,
\* source.start(0, offset) a RangeError on a negative offset and a TypeError
\* on NaN
StartThrows(offset) ==
    /\ DOMAIN buffersRef # {}
    /\ \/ IsNaN(offset)
       \/ offset < 0
       \/ /\ FirstStem(buffersRef) \in DOMAIN gainsRef
          /\ gainsRef[FirstStem(buffersRef)].ctx # ctxRef

\* startSources(offset), ctxRef.current not null, start not throwing
startSources(offset) ==
    /\ endedQueue' = StoppedQueue
    /\ sourcesRef' = NewSources(offset)
    /\ firstSource' = NewFirstSource(offset)
    /\ startTimeRef' = ctxTime
    /\ offsetRef' = offset

\* audio.play(): an element that played to its end starts over
\* (on a failed element the promise is rejected and nothing starts)
AudioPlay(a) ==
    IF a.failed THEN a
    ELSE [a EXCEPT !.paused = FALSE,
                   !.currentTime = IF a.currentTime >= MixDuration THEN 0 ELSE @]

\* requestAnimationFrame(tick) unless a frame is pending; the tick closure
\* keeps the stemsAvailable of the render that made it
startTick ==
    IF rafRef = Null
    THEN /\ rafRef' = [stemsAvailable |-> stemsAvailable]
         /\ frames' = Append(frames, rafRef')
    ELSE UNCHANGED <<rafRef, frames>>

\* the sequence without its first element equal to x, if it has one
RemoveOne(seq, x) ==
    IF \E i \in DOMAIN seq : seq[i] = x
    THEN LET i == CHOOSE j \in DOMAIN seq : seq[j] = x /\ \A k \in 1..(j - 1) : seq[k] # x
         IN  SubSeq(seq, 1, i - 1) \o SubSeq(seq, i + 1, Len(seq))
    ELSE seq

\* a stopTick that forgets the handle without cancelling the frame (mutant)
stopTickKeepsFrame ==
    /\ rafRef' = Null
    /\ UNCHANGED frames

\* stopTick: cancelAnimationFrame on the handle, which is then forgotten
stopTick ==
    /\ rafRef' = Null
    /\ frames' = IF rafRef = Null THEN frames ELSE RemoveOne(frames, rafRef)

\* the six tasks of a load() whose outcome is not known yet, and those of a
\* load() that went on past its await
NoTasks == [fulfilled |-> {}, rejected |-> {}]

\* a load() that leaves the stored offset of the session before (mutant)
LoadBodyKeepsPosition ==
    /\ mounted
    /\ CanStop
    /\ stopTick
    /\ stopSources
    /\ isPlaying' = FALSE
    /\ currentTime' = 0
    /\ duration' = 0
    /\ isLoading' = TRUE
    /\ stemsAvailable' = FALSE
    /\ audios' = IF audioRef # 0 THEN [audios EXCEPT ![audioRef].paused = TRUE] ELSE audios
    /\ audioRef' = 0
    /\ ctxRef' = Len(loads) + 1
    /\ ctxTime' = 0
    /\ loads' = Append(loads, "pending")
    /\ raised' = FALSE
    /\ alt' = "off"
    /\ playedTotal' = 0
    /\ mutedStems' = {}
    /\ soloedStem' = NoSolo
    /\ gainsRef' = GainsEffect(TRUE, gainsRef, mutedStems', soloedStem', stemsAvailable')
    /\ tasks' = Append(tasks, NoTasks)
    /\ openCtx' = openCtx \cup {Len(loads) + 1}
    /\ UNCHANGED <<buffersRef, startTimeRef, offsetRef>>
    /\ UNCHANGED hostVars

\* load(baseUrl) up to its await: the session is reset and a new AudioContext
\* made; gainsRef and buffersRef are left as they are
\* (the effect on the gains runs with stemsAvailable false and does nothing)
LoadBody ==
    /\ mounted
    /\ CanStop
    /\ stopTick
    /\ stopSources
    /\ isPlaying' = FALSE
    /\ currentTime' = 0
    /\ duration' = 0
    /\ isLoading' = TRUE
    /\ stemsAvailable' = FALSE
    /\ offsetRef' = 0
    /\ audios' = IF audioRef # 0 THEN [audios EXCEPT ![audioRef].paused = TRUE] ELSE audios
    /\ audioRef' = 0
    /\ ctxRef' = Len(loads) + 1
    /\ ctxTime' = 0
    /\ loads' = Append(loads, "pending")
    /\ raised' = FALSE
    /\ alt' = "off"
    /\ playedTotal' = 0
    /\ mutedStems' = {}
    /\ soloedStem' = NoSolo
    /\ gainsRef' = GainsEffect(TRUE, gainsRef, mutedStems', soloedStem', stemsAvailable')
    /\ tasks' = Append(tasks, NoTasks)
    /\ openCtx' = openCtx \cup {Len(loads) + 1}
    /\ UNCHANGED <<buffersRef, startTimeRef>>
    /\ UNCHANGED hostVars

Load ==
    /\ Len(loads) < MaxLoads
    /\ LoadBody

\* a loop that keeps the smallest duration instead (mutant)
MaxOverSmallest(S) == IF S = {} THEN 0 ELSE CHOOSE x \in S : \A y \in S : x <= y

\* maxDuration: the largest of the durations of the decoded buffers, from 0
MaxOver(S) == IF S = {} THEN 0 ELSE Max(S)

\* a new Audio(baseUrl): paused, at 0, metadata not loaded yet, not failed
NewAudio ==
    [currentTime |-> 0, paused |-> TRUE, meta |-> FALSE, endedEvt |-> FALSE, failed |-> FALSE]

WithAudio(l) == [k \in DOMAIN audios \cup {l} |-> IF k = l THEN NewAudio ELSE audios[k]]

\* the position is 0 and nothing plays or loads: the alternation of play()
\* and pause() is followed from here
AtRest(l) ==
    /\ l = Len(loads)
    /\ \A k \in 1..Len(loads) : k # l => loads[k] = "settled"
    /\ offsetRef = 0
    /\ ~isPlaying
    /\ endedQueue = << >>

\* the rest of load number l once Promise.allSettled has settled: ok is the
\* set of stems whose task was fulfilled
SettleSuccess(l, ok) ==
    \* ctx.createGain(): gain.value is 1 until the effect runs, which it does
    \* when this render changes stemsAvailable
    /\ gainsRef' = GainsEffect(~stemsAvailable,
                               [stem \in ok |-> [ctx |-> l, value |-> 1]],
                               mutedStems, soloedStem, TRUE)
    /\ buffersRef' = [stem \in ok |-> [load |-> l, dur |-> StemDuration(stem)]]
    /\ duration' = MaxOver({StemDuration(stem) : stem \in ok})
    /\ stemsAvailable' = TRUE
    /\ isLoading' = FALSE
    /\ alt' = IF AtRest(l) THEN "paused" ELSE "off"
    /\ UNCHANGED <<isPlaying, currentTime, ctxRef, sourcesRef, rafRef, frames, audioRef,
                   startTimeRef, offsetRef, ctxTime, firstSource, endedQueue, audios,
                   openCtx>>

\* the catch block: ctxRef.current, whichever load made it, is closed
SettleFallback(l) ==
    /\ stemsAvailable' = FALSE
    /\ openCtx' = openCtx \ {ctxRef}
    /\ ctxRef' = 0
    /\ gainsRef' = NoMap
    /\ buffersRef' = NoMap
    /\ audios' = WithAudio(l)
    /\ audioRef' = l
    /\ isLoading' = FALSE
    /\ alt' = "off"
    /\ UNCHANGED <<isPlaying, currentTime, duration, sourcesRef, rafRef, frames,
                   startTimeRef, offsetRef, ctxTime, firstSource, endedQueue>>

\* one of the six tasks of load number l settles: Promise.allSettled records
\* the result and goes on waiting for the others
TaskSettles(l, stem, fulfilled) ==
    /\ l \in 1..Len(loads)
    /\ loads[l] = "pending"
    /\ stem \notin tasks[l].fulfilled \cup tasks[l].rejected
    /\ tasks' = IF fulfilled
                THEN [tasks EXCEPT ![l].fulfilled = @ \cup {stem}]
                ELSE [tasks EXCEPT ![l].rejected = @ \cup {stem}]
    /\ UNCHANGED <<stateVars, mixerVars, refVars, frames, envVars, openCtx, historyVars, hostVars>>

\* a load that falls back as soon as one stem fails (mutant)
LoadSettleFailFast(l, ok) ==
    /\ l \in 1..Len(loads)
    /\ loads[l] = "pending"
    /\ loads' = [loads EXCEPT ![l] = "settled"]
    /\ tasks' = [tasks EXCEPT ![l] = NoTasks]
    /\ IF ok = Stems THEN SettleSuccess(l, ok) ELSE SettleFallback(l)
    /\ raised' = FALSE
    /\ playedTotal' = 0
    /\ UNCHANGED <<mixerVars, hostVars>>

\* the tasks of load number l that are still pending settle so that ok is the
\* set of stems fulfilled, and load() goes on past its await
LoadSettle(l, ok) ==
    /\ l \in 1..Len(loads)
    /\ loads[l] = "pending"
    /\ tasks[l].fulfilled \subseteq ok
    /\ tasks[l].rejected \cap ok = {}
    /\ loads' = [loads EXCEPT ![l] = "settled"]
    /\ tasks' = [tasks EXCEPT ![l] = NoTasks]
    /\ IF ok # {} THEN SettleSuccess(l, ok) ELSE SettleFallback(l)
    /\ raised' = FALSE
    /\ playedTotal' = 0
    /\ UNCHANGED <<mixerVars, hostVars>>

\* load() that goes on as soon as one task has settled (mutant)
AllSettledFirstOnly(l) ==
    /\ l \in 1..Len(loads)
    /\ tasks[l].fulfilled \cup tasks[l].rejected # {}
    /\ LoadSettle(l, tasks[l].fulfilled)

\* await Promise.allSettled(...): load() goes on once each of the six tasks
\* has settled
AllSettled(l) ==
    /\ l \in 1..Len(loads)
    /\ tasks[l].fulfilled \cup tasks[l].rejected = Stems
    /\ LoadSettle(l, tasks[l].fulfilled)

\* play()
PlayBody ==
    /\ mounted
    /\ IF stemsAvailable
       THEN IF ctxRef = 0
            THEN /\ raised' = FALSE
                 /\ UNCHANGED <<stateVars, refVars, frames, firstSource, endedQueue, audios>>
            ELSE /\ CanStop
                 /\ IF StartThrows(offsetRef)
                    THEN /\ stopSources
                         /\ raised' = TRUE
                         /\ UNCHANGED <<stateVars, ctxRef, gainsRef, buffersRef, rafRef, frames,
                                        audioRef, startTimeRef, offsetRef, audios>>
                    ELSE /\ startSources(offsetRef)
                         /\ isPlaying' = TRUE
                         /\ startTick
                         /\ raised' = FALSE
                         /\ UNCHANGED <<currentTime, duration, isLoading, stemsAvailable,
                                        ctxRef, gainsRef, buffersRef, audioRef, audios>>
       ELSE /\ audios' = IF audioRef # 0
                         THEN [audios EXCEPT ![audioRef] = AudioPlay(@)]
                         ELSE audios
            /\ isPlaying' = TRUE
            /\ startTick
            /\ raised' = FALSE
            /\ UNCHANGED <<currentTime, duration, isLoading, stemsAvailable, ctxRef,
                           sourcesRef, gainsRef, buffersRef, audioRef, startTimeRef,
                           offsetRef, firstSource, endedQueue>>
    /\ alt' = IF alt = "paused" /\ stemsAvailable /\ ctxRef # 0 /\ ~StartThrows(offsetRef)
              THEN "playing" ELSE "off"
    /\ playedTotal' = IF alt' = "off" THEN 0 ELSE playedTotal
    /\ UNCHANGED <<loads, ctxTime>>
    /\ UNCHANGED <<mixerVars, hostVars, loaderVars>>

\* pause()
PauseBody ==
    /\ mounted
    /\ IF stemsAvailable
       THEN /\ CanStop
            /\ offsetRef' = IF ctxRef # 0 THEN Plus(offsetRef, Elapsed) ELSE offsetRef
            /\ offsetRef' \in Offsets
            /\ stopSources
            /\ UNCHANGED audios
       ELSE /\ audios' = IF audioRef # 0
                         THEN [audios EXCEPT ![audioRef].paused = TRUE]
                         ELSE audios
            /\ UNCHANGED <<offsetRef, sourcesRef, firstSource, endedQueue>>
    /\ isPlaying' = FALSE
    /\ stopTick
    /\ raised' = FALSE
    /\ alt' = IF alt = "playing" /\ stemsAvailable THEN "paused" ELSE "off"
    /\ playedTotal' = IF alt' = "off" THEN 0 ELSE playedTotal
    /\ UNCHANGED <<currentTime, duration, isLoading, stemsAvailable, ctxRef, gainsRef,
                   buffersRef, audioRef, startTimeRef, loads, ctxTime>>
    /\ UNCHANGED <<mixerVars, hostVars, loaderVars>>

Play == PlayBody

Pause == PauseBody

\* toggle()
Toggle == IF isPlaying THEN PauseBody ELSE PlayBody

\* Math.max(0, Math.min(time, duration))
Clamp(time, dur) == MathMax(0, MathMin(time, dur))

\* seek(time)
Seek(time) ==
    LET clampedTime == Clamp(time, duration)
    IN  /\ mounted
        /\ currentTime' = clampedTime
        /\ IF stemsAvailable
           THEN IF isPlaying /\ ctxRef # 0
                THEN /\ CanStop
                     /\ IF StartThrows(clampedTime)
                        THEN /\ stopSources
                             /\ offsetRef' = clampedTime
                             /\ raised' = TRUE
                             /\ UNCHANGED startTimeRef
                        ELSE /\ startSources(clampedTime)
                             /\ raised' = FALSE
                     /\ UNCHANGED audios
                ELSE /\ offsetRef' = clampedTime
                     /\ raised' = FALSE
                     /\ UNCHANGED <<sourcesRef, startTimeRef, firstSource, endedQueue, audios>>
           ELSE /\ offsetRef' = clampedTime
                \* audio.currentTime = NaN throws a TypeError
                /\ audios' = IF audioRef # 0 /\ ~IsNaN(clampedTime)
                             THEN [audios EXCEPT ![audioRef].currentTime =
                                                     Clamp(clampedTime, MixDuration)]
                             ELSE audios
                /\ raised' = (audioRef # 0 /\ IsNaN(clampedTime))
                /\ UNCHANGED <<sourcesRef, startTimeRef, firstSource, endedQueue>>
        /\ alt' = "off"
        /\ playedTotal' = 0
        /\ UNCHANGED <<isPlaying, duration, isLoading, stemsAvailable, ctxRef, gainsRef,
                       buffersRef, rafRef, frames, audioRef, loads, ctxTime>>
        /\ UNCHANGED <<mixerVars, hostVars, loaderVars>>

\* the amount skipForward and skipBackward move by, in the model's time units
Skip == 2

\* cur of skipForward and skipBackward: the clock difference is added
\* whether or not the sources are running
SkipCur ==
    IF stemsAvailable
    THEN Plus(offsetRef, IF ctxRef # 0 THEN Elapsed ELSE 0)
    ELSE IF audioRef # 0 THEN audios[audioRef].currentTime ELSE 0

\* skipForward()
SkipForward == Seek(Plus(SkipCur, Skip))

\* skipBackward()
SkipBackward == Seek(Plus(SkipCur, 0 - Skip))

\* an updater that only ever adds the stem (mutant)
toggleMuteUpdaterAddOnly(prev, stem) == prev \cup {stem}

\* the updater of toggleMute: prev with the membership of stem flipped
toggleMuteUpdater(prev, stem) ==
    IF stem \in prev THEN prev \ {stem} ELSE prev \cup {stem}

\* an updater that never clears solo (mutant)
soloUpdaterNoToggle(prev, stem) == stem

\* the updater of solo: prev === stem ? null : stem
soloUpdater(prev, stem) == IF prev = stem THEN NoSolo ELSE stem

\* toggleMute(stem): a new Set every time, so the effect runs
ToggleMute(stem) ==
    /\ mounted
    /\ mutedStems' = toggleMuteUpdater(mutedStems, stem)
    /\ gainsRef' = GainsEffect(TRUE, gainsRef, mutedStems', soloedStem, stemsAvailable)
    /\ raised' = FALSE
    /\ UNCHANGED <<stateVars, soloedStem, ctxRef, sourcesRef, buffersRef, rafRef, frames,
                   audioRef, startTimeRef, offsetRef, envVars, alt, playedTotal>>
    /\ UNCHANGED <<hostVars, loaderVars>>

\* an unmuteAll() that leaves soloedStem alone (mutant)
UnmuteAllKeepSolo ==
    /\ mounted
    /\ mutedStems' = {}
    /\ gainsRef' = GainsEffect(TRUE, gainsRef, mutedStems', soloedStem, stemsAvailable)
    /\ raised' = FALSE
    /\ UNCHANGED <<stateVars, soloedStem, ctxRef, sourcesRef, buffersRef, rafRef, frames,
                   audioRef, startTimeRef, offsetRef, envVars, alt, playedTotal>>
    /\ UNCHANGED <<hostVars, loaderVars>>

\* unmuteAll(): a new Set every time, so the effect runs
UnmuteAll ==
    /\ mounted
    /\ mutedStems' = {}
    /\ soloedStem' = NoSolo
    /\ gainsRef' = GainsEffect(TRUE, gainsRef, mutedStems', soloedStem', stemsAvailable)
    /\ raised' = FALSE
    /\ UNCHANGED <<stateVars, ctxRef, sourcesRef, buffersRef, rafRef, frames,
                   audioRef, startTimeRef, offsetRef, envVars, alt, playedTotal>>
    /\ UNCHANGED <<hostVars, loaderVars>>

\* solo(stem), stem a stem name or null; setting the state to the value it
\* has renders nothing and runs no effect
Solo(stem) ==
    /\ mounted
    /\ soloedStem' = soloUpdater(soloedStem, stem)
    /\ gainsRef' = GainsEffect(soloedStem' # soloedStem, gainsRef, mutedStems,
                               soloedStem', stemsAvailable)
    /\ raised' = FALSE
    /\ UNCHANGED <<stateVars, mutedStems, ctxRef, sourcesRef, buffersRef, rafRef, frames,
                   audioRef, startTimeRef, offsetRef, envVars, alt, playedTotal>>
    /\ UNCHANGED <<hostVars, loaderVars>>

\* firstSource.onended, made by a startSources that closed over a duration
OnEnded(closureDuration) ==
    IF ctxRef # 0 /\ Geq(Plus(offsetRef, Elapsed), closureDuration - Tolerance)
    THEN /\ isPlaying' = FALSE
         /\ stopTick
         /\ currentTime' = 0
         /\ offsetRef' = 0
    ELSE UNCHANGED <<isPlaying, rafRef, frames, currentTime, offsetRef>>

\* the first source played its buffer to the end
SourceEnded ==
    /\ firstSource # Null
    /\ ~firstSource.done
    /\ ctxRef # 0
    /\ ctxTime - firstSource.at >= firstSource.dur - firstSource.offset
    /\ firstSource' = [firstSource EXCEPT !.done = TRUE]
    /\ OnEnded(firstSource.closureDuration)
    /\ UNCHANGED <<duration, isLoading, stemsAvailable, ctxRef, sourcesRef, gainsRef,
                   buffersRef, audioRef, startTimeRef, loads, ctxTime, endedQueue, audios>>
    /\ UNCHANGED historyVars
    /\ UNCHANGED <<mixerVars, hostVars, loaderVars>>

\* the 'ended' event of a first source that stop() ended is delivered
StoppedSourceEnded ==
    /\ endedQueue # << >>
    /\ endedQueue' = Tail(endedQueue)
    /\ OnEnded(Head(endedQueue))
    /\ UNCHANGED <<duration, isLoading, stemsAvailable, ctxRef, sourcesRef, gainsRef,
                   buffersRef, audioRef, startTimeRef, loads, ctxTime, firstSource, audios>>
    /\ UNCHANGED historyVars
    /\ UNCHANGED <<mixerVars, hostVars, loaderVars>>

\* a pending animation frame runs its tick closure, which sets currentTime
\* and requests the next frame for itself
Tick ==
    \E i \in DOMAIN frames :
        LET tick == frames[i]
        IN  /\ currentTime' =
                 IF tick.stemsAvailable /\ ctxRef # 0 THEN Plus(offsetRef, Elapsed)
                 ELSE IF audioRef # 0 THEN audios[audioRef].currentTime
                 ELSE currentTime
            /\ rafRef' = tick
            /\ frames' = Append(SubSeq(frames, 1, i - 1) \o SubSeq(frames, i + 1, Len(frames)),
                                tick)
            /\ UNCHANGED <<isPlaying, duration, isLoading, stemsAvailable>>
            /\ UNCHANGED <<ctxRef, sourcesRef, gainsRef, buffersRef, audioRef, startTimeRef,
                           offsetRef>>
            /\ UNCHANGED <<mixerVars, envVars, historyVars, hostVars, loaderVars>>

\* 'loadedmetadata' of the Audio element of load l
AudioLoadedMetadata(l) ==
    /\ l \in DOMAIN audios
    /\ ~audios[l].meta
    /\ ~audios[l].failed
    /\ audios' = [audios EXCEPT ![l].meta = TRUE]
    /\ duration' = MixDuration
    /\ UNCHANGED <<isPlaying, currentTime, isLoading, stemsAvailable>>
    /\ UNCHANGED <<mixerVars, refVars, frames, loads, ctxTime, firstSource, endedQueue, historyVars, hostVars, loaderVars>>

\* the mixed audio of load l cannot be fetched or decoded: the element fires
\* 'error', for which the hook registers no listener
AudioError(l) ==
    /\ l \in DOMAIN audios
    /\ ~audios[l].meta
    /\ ~audios[l].failed
    /\ audios' = [audios EXCEPT ![l].failed = TRUE]
    /\ UNCHANGED stateVars
    /\ UNCHANGED <<mixerVars, refVars, frames, loads, ctxTime, firstSource, endedQueue, historyVars, hostVars, loaderVars>>

\* 'ended' of the Audio element of load l
AudioEnded(l) ==
    /\ l \in DOMAIN audios
    /\ audios[l].endedEvt
    /\ audios' = [audios EXCEPT ![l].endedEvt = FALSE]
    /\ isPlaying' = FALSE
    /\ stopTick
    /\ UNCHANGED <<currentTime, duration, isLoading, stemsAvailable, ctxRef, sourcesRef,
                   gainsRef, buffersRef, audioRef, startTimeRef, offsetRef>>
    /\ UNCHANGED <<mixerVars, loads, ctxTime, firstSource, endedQueue, historyVars, hostVars, loaderVars>>

\* an Audio element that plays advances with the clock to its end
AudioRun(a) ==
    IF a.paused \/ ~a.meta THEN a
    ELSE IF a.currentTime + 1 >= MixDuration
         THEN [a EXCEPT !.currentTime = MixDuration, !.paused = TRUE, !.endedEvt = TRUE]
         ELSE [a EXCEPT !.currentTime = @ + 1]

\* the clock of the current AudioContext runs until the context is closed
ClockRuns == ctxRef # 0 /\ ctxRef \in openCtx

\* the cleanup of the hook's effect, run when the component unmounts
Unmount ==
    /\ mounted
    /\ mounted' = FALSE
    /\ CanStop
    /\ stopTick
    /\ stopSources
    /\ audios' = IF audioRef # 0 THEN [audios EXCEPT ![audioRef].paused = TRUE] ELSE audios
    /\ openCtx' = openCtx \ {ctxRef}
    /\ UNCHANGED <<stateVars, mixerVars, ctxRef, gainsRef, buffersRef, audioRef,
                   startTimeRef, offsetRef, loads, ctxTime, tasks, historyVars, syncVars,
                   analysisVars>>

\* one unit of time passes
AdvanceClock ==
    /\ ClockRuns \/ \E l \in DOMAIN audios : AudioRun(audios[l]) # audios[l]
    /\ ClockRuns => ctxTime < MaxClock
    /\ ctxTime' = IF ClockRuns THEN ctxTime + 1 ELSE ctxTime
    /\ audios' = [l \in DOMAIN audios |-> AudioRun(audios[l])]
    /\ playedTotal' = IF alt = "playing" THEN playedTotal + 1 ELSE playedTotal
    /\ UNCHANGED <<stateVars, refVars, frames, loads, firstSource, endedQueue, raised, alt>>
    /\ UNCHANGED <<mixerVars, hostVars, loaderVars>>

\* ------------------------------------------------------------------------
\* useAnalysis (hooks/useAnalysis.ts): submitting a job and polling it
\* ------------------------------------------------------------------------

\* null, among the strings of the hook's state
NullStr == "null"

\* the statuses of a job that end it, and two of those that do not
Terminal == {"complete", "failed"}

JobStatus == {"queued", "downloading"} \cup Terminal

\* what the server can answer to a poll: a job under way at some progress,
\* a failed job with or without a message, a complete job with or without
\* its result (JobResponse.result is nullable whatever the status)
JobResponse ==
    {[status |-> s, progress |-> p, error |-> NullStr, result |-> NullStr] :
        s \in JobStatus \ Terminal, p \in 0..1}
    \cup {[status |-> "failed", progress |-> 0, error |-> e, result |-> NullStr] :
        e \in {NullStr, "job error"}}
    \cup {[status |-> "complete", progress |-> 1, error |-> NullStr, result |-> r] :
        r \in {NullStr, "result"}}

AnalysisInit ==
    /\ analysis = [status |-> NullStr, progress |-> 0, error |-> NullStr,
                   result |-> NullStr, jobId |-> 0]
    /\ abortRef = 0
    /\ submits = << >>
    /\ polls = << >>

\* isLoading of the hook's return value
AnalysisIsLoading ==
    analysis.status # NullStr /\ analysis.status \notin Terminal

\* stopPolling(): aborts the controller abortRef holds, if any
stopPolling ==
    /\ polls' = IF abortRef # 0 THEN [polls EXCEPT ![abortRef].aborted = TRUE] ELSE polls
    /\ abortRef' = 0

\* submit(url, genre) up to its await: the POST of submission Len(submits')
\* is in flight
Submit ==
    /\ Len(submits) < MaxSubmits
    /\ stopPolling
    /\ analysis' = [status |-> "queued", progress |-> 0, error |-> NullStr,
                    result |-> NullStr, jobId |-> 0]
    /\ submits' = Append(submits, "pending")
    /\ UNCHANGED <<syncVars, playerVars>>

\* poll(id): a new controller, stored in abortRef, and the first request of
\* its loop
poll(id) ==
    /\ polls' = Append(polls, [id |-> id, aborted |-> FALSE, running |-> TRUE,
                               requests |-> 1,
                               lastStatus |-> NullStr, lastProgress |-> 0])
    /\ abortRef' = Len(polls) + 1

\* the POST of submission s answers with the job id (the submission's number)
SubmitResolves(s) ==
    /\ s \in DOMAIN submits
    /\ submits[s] = "pending"
    /\ submits' = [submits EXCEPT ![s] = "accepted"]
    /\ analysis' = [analysis EXCEPT !.jobId = s]
    /\ poll(s)
    /\ UNCHANGED <<syncVars, playerVars>>

\* the POST of submission s fails
SubmitRejects(s) ==
    /\ s \in DOMAIN submits
    /\ submits[s] = "pending"
    /\ submits' = [submits EXCEPT ![s] = "rejected"]
    /\ analysis' = [analysis EXCEPT !.error = "request failed", !.status = "failed"]
    /\ UNCHANGED <<abortRef, polls, syncVars, playerVars>>

\* the loop of controller c leaves on this answer
PollBreaks(data) ==
    \/ data.status = "complete" /\ data.result # NullStr
    \/ data.status = "failed"

\* the request of the loop of controller c is answered with data
PollResponse(c, data) ==
    /\ c \in DOMAIN polls
    /\ polls[c].running
    /\ ~polls[c].aborted
    /\ PollBreaks(data) \/ polls[c].requests < MaxPolls
    /\ analysis' =
          [analysis EXCEPT
              !.status = data.status,
              !.progress = data.progress,
              !.result = IF data.status = "complete" /\ data.result # NullStr
                         THEN data.result ELSE @,
              !.error = IF data.status = "complete" /\ data.result # NullStr THEN @
                        ELSE IF data.status = "failed"
                        THEN (IF data.error # NullStr THEN data.error
                              ELSE "Analysis failed")
                        ELSE @]
    /\ polls' =
          [polls EXCEPT
              ![c].lastStatus = data.status,
              ![c].lastProgress = data.progress,
              ![c].running = ~PollBreaks(data),
              ![c].requests = IF PollBreaks(data) THEN @ ELSE @ + 1]
    /\ UNCHANGED <<abortRef, submits, syncVars, playerVars>>

\* the request of the loop of controller c fails, the controller not aborted
PollFails(c) ==
    /\ c \in DOMAIN polls
    /\ polls[c].running
    /\ ~polls[c].aborted
    /\ analysis' = [analysis EXCEPT !.error = "request failed"]
    /\ polls' = [polls EXCEPT ![c].running = FALSE]
    /\ UNCHANGED <<abortRef, submits, syncVars, playerVars>>

\* the request of an aborted controller rejects: its loop returns
PollAborted(c) ==
    /\ c \in DOMAIN polls
    /\ polls[c].running
    /\ polls[c].aborted
    /\ polls' = [polls EXCEPT ![c].running = FALSE]
    /\ UNCHANGED <<analysis, abortRef, submits, syncVars, playerVars>>

\* ------------------------------------------------------------------------
Init ==
    /\ PlayerInit
    /\ AnalysisInit
    /\ syncProps = [beats |-> << >>, bars |-> << >>, currentTime |-> 0]
    /\ sync = useBeatSync(syncProps.beats, syncProps.bars, syncProps.currentTime)

Next ==
    \/ Load
    \/ \E l \in 1..Len(loads), ok \in SampleOutcomes : LoadSettle(l, ok)
    \/ Play
    \/ Pause
    \/ Toggle
    \/ \E time \in SeekTargets : Seek(time)
    \/ SkipForward
    \/ SkipBackward
    \/ SourceEnded
    \/ StoppedSourceEnded
    \/ Tick
    \/ \E l \in DOMAIN audios : AudioLoadedMetadata(l)
    \/ \E l \in DOMAIN audios : AudioError(l)
    \/ \E l \in DOMAIN audios : AudioEnded(l)
    \/ AdvanceClock

Spec == Init /\ [][Next]_vars

\* the loader: overlapping load() calls, every outcome of the six tasks
LoadAgain ==
    /\ Len(loads) < MaxOverlap
    /\ LoadBody

NextLoad ==
    \/ LoadAgain
    \/ \E l \in 1..Len(loads), ok \in Outcomes : LoadSettle(l, ok)
    \/ \E l \in DOMAIN audios : AudioLoadedMetadata(l)
    \/ \E l \in DOMAIN audios : AudioError(l)

SpecLoad == Init /\ [][NextLoad]_vars

\* the six tasks of a load(), settling one by one
NextTasks ==
    \/ Load
    \/ \E l \in 1..Len(loads), stem \in Stems, fulfilled \in BOOLEAN :
          TaskSettles(l, stem, fulfilled)
    \/ \E l \in 1..Len(loads) : AllSettled(l)

SpecTasks == Init /\ [][NextTasks]_vars

\* the transport over a reload: Next with a second load() call
NextReload ==
    \/ LoadAgain
    \/ \E l \in 1..Len(loads), ok \in SampleOutcomes : LoadSettle(l, ok)
    \/ Play
    \/ Pause
    \/ Toggle
    \/ \E time \in SeekTargets : Seek(time)
    \/ SkipForward
    \/ SkipBackward
    \/ SourceEnded
    \/ StoppedSourceEnded
    \/ Tick
    \/ \E l \in DOMAIN audios : AudioLoadedMetadata(l)
    \/ \E l \in DOMAIN audios : AudioError(l)
    \/ \E l \in DOMAIN audios : AudioEnded(l)
    \/ AdvanceClock

SpecReload == Init /\ [][NextReload]_vars

\* the stems the mixer is driven with
MixerStems == Stems

\* the outcomes the mixer is exercised with: none, all six, four of six
MixerOutcomes == {{}, Stems, Stems \ {"drums", "bass"}}

\* the mixer: mute and solo calls over loads that may overlap
NextMixer ==
    \/ LoadAgain
    \/ \E l \in 1..Len(loads), ok \in MixerOutcomes : LoadSettle(l, ok)
    \/ \E stem \in MixerStems : ToggleMute(stem)
    \/ UnmuteAll
    \/ \E stem \in MixerStems \cup {NoSolo} : Solo(stem)

SpecMixer == Init /\ [][NextMixer]_vars

\* the outcomes a session is exercised with: none, four of six
SessionOutcomes == {{}, Stems \ {"drums", "bass"}}

\* the stem a session's mixer calls are made with
SessionStems == {"vocals"}

\* load() called once the load before it has armed its transport
LoadNext ==
    /\ \A l \in 1..Len(loads) : loads[l] = "settled"
    /\ LoadAgain

\* sessions used one after another: each is loaded, played, sought and mixed,
\* and then replaced by the next load() call
NextSession ==
    \/ LoadNext
    \/ \E l \in 1..Len(loads), ok \in SessionOutcomes : LoadSettle(l, ok)
    \/ Play
    \/ \E time \in {1} : Seek(time)
    \/ \E stem \in SessionStems : ToggleMute(stem)
    \/ \E stem \in SessionStems : Solo(stem)
    \/ Tick
    \/ \E l \in DOMAIN audios : AudioLoadedMetadata(l)
    \/ AdvanceClock

SpecSession == Init /\ [][NextSession]_vars

\* one session with every call of the interface: the transport and the mixer
NextFrame ==
    \/ Next
    \/ \E stem \in SessionStems : ToggleMute(stem)
    \/ UnmuteAll
    \/ \E stem \in SessionStems : Solo(stem)

SpecFrame == Init /\ [][NextFrame]_vars

\* one session to the end of the component's life: after the unmount only
\* what was already under way goes on
NextLife ==
    \/ Load
    \/ \E l \in 1..Len(loads), ok \in SessionOutcomes : LoadSettle(l, ok)
    \/ Play
    \/ Pause
    \/ SourceEnded
    \/ StoppedSourceEnded
    \/ Tick
    \/ \E l \in DOMAIN audios : AudioLoadedMetadata(l)
    \/ \E l \in DOMAIN audios : AudioEnded(l)
    \/ AdvanceClock
    \/ Unmount

SpecLife == Init /\ [][NextLife]_vars

\* useAnalysis alone: submissions, their POSTs and their poll loops
NextAnalysis ==
    \/ Submit
    \/ \E s \in 1..MaxSubmits : SubmitResolves(s) \/ SubmitRejects(s)
    \/ \E c \in 1..MaxSubmits : \E data \in JobResponse : PollResponse(c, data)
    \/ \E c \in 1..MaxSubmits : PollFails(c) \/ PollAborted(c)

SpecAnalysis == Init /\ [][NextAnalysis]_vars

\* ------------------------------------------------------------------------
\* The inputs of useBeatSync
\* ------------------------------------------------------------------------
Beat == [time : 0..MaxTime, beat_num : BeatNums]

\* end and bar_num are never read by the hook; a bar is modelled by its start
Bar == [start : 0..MaxTime]

SeqsUpTo(S, n) == UNION {[1..k -> S] : k \in 0..n}

\* every beat sequence sorted by time, equal times included
BeatSeqs ==
    {b \in SeqsUpTo(Beat, MaxBeats) :
        \A i \in 1..(Len(b) - 1) : b[i].time <= b[i + 1].time}

\* every bar sequence sorted by start
BarSeqs ==
    {b \in SeqsUpTo(Bar, MaxBeats) :
        \A i \in 1..(Len(b) - 1) : b[i].start <= b[i + 1].start}

\* the bars of the scenario of the specification: starts 0, 2, 4
ScenarioBars == <<[start |-> 0], [start |-> 2], [start |-> 4]>>

\* two beats, a tie
ScenarioBeats == <<[time |-> 1, beat_num |-> 1], [time |-> 1, beat_num |-> 2]>>

\* the generic inputs: each sequence ranges over all its values, beside an
\* empty and a fixed value of the other one
SyncInputs ==
    {[beats |-> b, bars |-> r] : b \in BeatSeqs, r \in {<< >>, ScenarioBars}}
    \cup {[beats |-> b, bars |-> r] : b \in {<< >>, ScenarioBeats}, r \in BarSeqs}

\* the last time any beat or bar of the inputs names
LastTime(beats, bars) ==
    Max({0} \cup {beats[i].time : i \in 1..Len(beats)}
            \cup {bars[i].start : i \in 1..Len(bars)})

Render(p) == useBeatSync(p.beats, p.bars, p.currentTime)

SyncInit ==
    /\ \E in \in SyncInputs :
          syncProps = [beats |-> in.beats, bars |-> in.bars, currentTime |-> 0]
    /\ sync = Render(syncProps)
    /\ PlayerInit
    /\ AnalysisInit

\* the player's currentTime advanced (a frame of playback): App renders again
TimeAdvance ==
    /\ syncProps.currentTime <= LastTime(syncProps.beats, syncProps.bars)
    /\ syncProps' = [syncProps EXCEPT !.currentTime = @ + 1]
    /\ sync' = Render(syncProps')
    /\ UNCHANGED <<playerVars, analysisVars>>

\* the player's currentTime went back to 0 (seek, end of track, load)
TimeReset ==
    /\ syncProps.currentTime > 0
    /\ syncProps' = [syncProps EXCEPT !.currentTime = 0]
    /\ sync' = Render(syncProps')
    /\ UNCHANGED <<playerVars, analysisVars>>

SyncNext == TimeAdvance \/ TimeReset

SpecSync == SyncInit /\ [][SyncNext]_vars

\* ------------------------------------------------------------------------
\* Beat grids of the data model: beats a constant step apart, beat_num
\* counting 1..n and starting over, a bar starting every fourth beat
\* ------------------------------------------------------------------------
MaxGridBeats == 17   \* beats of a grid: two 8-counts and the next one's first

GridCounts == {4, 8}

GridSteps == {2, 3}

\* the count of the first beat: 1, or 7 (two pick-up beats before count 1)
GridFirstNums == {1, 7}

GridBeats(n, step, firstNum) ==
    [i \in 1..MaxGridBeats |->
        [time |-> (i - 1) * step, beat_num |-> ((firstNum - 1 + i - 1) % n) + 1]]

\* the beats that open a 4-beat bar, in order
BarOpeners(beats) ==
    {i \in 1..Len(beats) : (beats[i].beat_num - 1) % 4 = 0}

RECURSIVE SortedSeqOf(_)
SortedSeqOf(S) ==
    IF S = {} THEN << >>
    ELSE LET m == CHOOSE x \in S : \A y \in S : x <= y
         IN  <<m>> \o SortedSeqOf(S \ {m})

GridBars(beats) ==
    LET opens == SortedSeqOf(BarOpeners(beats))
    IN  [k \in 1..Len(opens) |-> [start |-> beats[opens[k]].time]]

GridInputs ==
    {[beats |-> GridBeats(n, step, f), bars |-> GridBars(GridBeats(n, step, f))] :
        n \in GridCounts, step \in GridSteps, f \in GridFirstNums}

GridInit ==
    /\ \E in \in GridInputs :
          syncProps = [beats |-> in.beats, bars |-> in.bars, currentTime |-> 0]
    /\ sync = Render(syncProps)
    /\ PlayerInit
    /\ AnalysisInit

SpecGrid == GridInit /\ [][SyncNext]_vars

\* ------------------------------------------------------------------------
\* Claims about useStemPlayer
\* ------------------------------------------------------------------------
\* load number l settles in this step after a later load() was called
SettlesStale(l) ==
    /\ l < Len(loads)
    /\ loads[l] = "pending"
    /\ loads'[l] = "settled"

\* C1: when load() was called again while an earlier load() was awaiting its
\* tasks, the settling of the earlier load writes nothing into live state:
\* the buffers, the gain nodes, duration and stemsAvailable stay as they are.
\* The code has no such cancellation, and a run of the loader violates this.
C1_StaleLoadWritesNothing ==
    [][\A l \in 1..Len(loads) :
          SettlesStale(l) =>
              UNCHANGED <<buffersRef, gainsRef, duration, stemsAvailable>>]_vars

\* C2: whatever subset ok of the six tasks is fulfilled, a load that settles
\* ends not loading and, when ok is not empty, with stemsAvailable and with
\* exactly the stems of ok as buffers and as gain nodes; when ok is empty,
\* with stemsAvailable false, no buffer, no gain node, the AudioContext
\* closed and the Audio element of this load in audioRef.
C2_LoadOutcome ==
    [][\A l \in 1..Len(loads), ok \in Outcomes :
          LoadSettle(l, ok) =>
              /\ ~isLoading'
              /\ IF ok # {}
                 THEN /\ stemsAvailable'
                      /\ DOMAIN buffersRef' = ok
                      /\ DOMAIN gainsRef' = ok
                 ELSE /\ ~stemsAvailable'
                      /\ DOMAIN buffersRef' = {}
                      /\ DOMAIN gainsRef' = {}
                      /\ ctxRef' = 0
                      /\ audioRef' = l
                      /\ l \in DOMAIN audios']_vars

\* C2, its case: a load settled with four of the six stems, two having failed
C2_Witness ==
    /\ stemsAvailable
    /\ ~isLoading
    /\ Len(loads) = 1
    /\ loads[1] = "settled"
    /\ DOMAIN buffersRef = Stems \ {"drums", "vocals"}
    /\ DOMAIN gainsRef = DOMAIN buffersRef

\* C3: in multi-track mode, over alternating play() and pause() calls with no
\* seek between them, the paused position is the sum of the playing
\* intervals (taken short of the end of the track by more than the
\* tolerance).  The code loses the position when the 'ended' event of a
\* source stopped by pause() is delivered, and a run violates this.
C3_PausedPositionIsPlayedTime ==
    (/\ alt = "paused"
     /\ stemsAvailable
     /\ ~isPlaying
     /\ playedTotal + Tolerance < duration)
        => offsetRef = playedTotal

\* C4: seek(time) never raises, whatever time is, and right after it
\* currentTime is min(max(time, 0), duration), a time of the track also when
\* time is not a number.  The code passes NaN through its clamp, and a run
\* violates this.
C4_SeekClampsAndNeverRaises ==
    [][\A time \in SeekTargets :
          Seek(time) =>
              /\ ~raised'
              /\ IF IsNaN(time)
                 THEN currentTime' \in 0..duration
                 ELSE currentTime' = Min2(Max2(time, 0), duration)]_vars

\* every loaded stem has one source, all started now at the stored offset,
\* each through the gain node of its stem, and the clock snapshot is of now
PhaseLocked ==
    /\ DOMAIN sourcesRef = DOMAIN buffersRef
    /\ DOMAIN sourcesRef # {}
    /\ \A stem \in DOMAIN sourcesRef :
          /\ sourcesRef[stem].offset = offsetRef
          /\ stem \in DOMAIN gainsRef
          /\ sourcesRef[stem].gain = gainsRef[stem].ctx
          /\ sourcesRef[stem].gain = ctxRef
    /\ firstSource # Null
    /\ firstSource.at = ctxTime
    /\ startTimeRef = ctxTime

\* C16: after play() in multi-track mode, and after seek() while playing,
\* every loaded stem has exactly one source, all of them started in this call
\* at the same offset and through their stems' gain nodes, and the clock
\* snapshot is the one of this start.  Taken here for numeric offsets only;
\* a run over a reload still violates it: play() throws on the negative
\* offset a pause() after the reload stored (C33), or on the gain nodes of a
\* superseded load (C1).
C16_SourcesStartTogether ==
    [][(\/ Play /\ stemsAvailable /\ ~IsNaN(offsetRef)
        \/ \E time \in SeekTargets \ {NaN} :
               Seek(time) /\ stemsAvailable /\ isPlaying)
          => PhaseLocked']_vars

\* C17: seek(t) while the multi-track transport is paused sets the stored
\* offset and currentTime to the clamped target and does nothing else: no
\* source is made and isPlaying stays false; seek(t) while it plays stops
\* the sources and restarts every one of them at the clamped offset with a
\* fresh clock snapshot.  Taken here for numeric t only; a run over a reload
\* still violates the playing case: after a superseded load has replaced the
\* gain nodes (C1), seek() stops the sources and throws before any restarts.
C17_SeekPausedAndPlaying ==
    [][\A time \in SeekTargets \ {NaN} :
          (Seek(time) /\ stemsAvailable) =>
              /\ offsetRef' = Min2(Max2(time, 0), duration)
              /\ currentTime' = Min2(Max2(time, 0), duration)
              /\ isPlaying' = isPlaying
              /\ IF isPlaying
                 THEN PhaseLocked'
                 ELSE UNCHANGED <<sourcesRef, firstSource, endedQueue, startTimeRef>>]_vars

\* C18: playback left running in multi-track mode auto-pauses and resets
\* the position once the longest loaded stem has completed, whichever stems
\* were loaded and whatever their durations.  Read on the states where the
\* transport still plays although the source that carries the handler has
\* ended and no 'ended' event is pending, so that nothing is left to pause
\* it: there the position must be short of the end of the longest stem.
\* The handler is on the first stem, not the longest, and a run violates
\* this when the first stem is the short one.
C18_PlaybackEndsWithLongestStem ==
    (/\ stemsAvailable
     /\ isPlaying
     /\ alt = "playing"
     /\ ctxRef # 0
     /\ firstSource # Null
     /\ firstSource.done
     /\ endedQueue = << >>)
        => offsetRef + Elapsed < duration

\* C19: the completion of a source that played to its end is treated as the
\* end of the track (isPlaying false, offset 0, currentTime 0) only at a
\* position offset + (now - startedAt) >= duration - tolerance; at an
\* earlier position (a short stem ending early) isPlaying, the stored offset
\* and currentTime stay as they are.  The handler tests against the duration
\* of the render that started the sources; when a superseded load (C1) has
\* set another duration since, a run over a reload violates this.
C19_EndOnlyNearTheEnd ==
    [][SourceEnded =>
          IF Geq(Plus(offsetRef, Elapsed), duration - Tolerance)
          THEN \/ UNCHANGED <<isPlaying, offsetRef, currentTime>>
               \/ isPlaying' = FALSE /\ offsetRef' = 0 /\ currentTime' = 0
          ELSE UNCHANGED <<isPlaying, offsetRef, currentTime>>]_vars

\* C20: play() when no load has completed (no stems available, no Audio
\* element in audioRef; before any load() or while one is in flight) raises
\* nothing and changes nothing: isPlaying stays false and no animation frame
\* is requested.  The code sets isPlaying and starts the polling loop, and a
\* run violates this.
C20_PlayBeforeLoadIsNoOp ==
    [][(Play /\ ~stemsAvailable /\ audioRef = 0 /\ ~isPlaying) =>
          /\ ~raised'
          /\ UNCHANGED <<stateVars, mixerVars, refVars, envVars>>]_vars

\* effectiveGain(s) of the mute/solo state
effectiveGain(s) ==
    IF soloedStem # NoSolo
    THEN IF s = soloedStem THEN 1 ELSE 0
    ELSE IF s \in mutedStems THEN 0 ELSE 1

\* C11: in multi-track mode, after any toggleMute, solo, unmuteAll and load
\* calls, the gain of every loaded stem s is effectiveGain(s).  A load that
\* settles after a later one (C1) leaves its new gain nodes at 1 because the
\* effect does not run again, and a run of the mixer violates this.
C11_GainsAreEffective ==
    stemsAvailable =>
        \A s \in DOMAIN gainsRef : gainsRef[s].value = effectiveGain(s)

\* C12: solo(A) with A not soloed makes A the soloed stem, whatever was
\* soloed before; solo(A) with A soloed clears solo; solo leaves mutedStems
\* alone; soloedStem is one stem or none in every state; and from no solo,
\* solo(A) twice gives no solo.
C12_SoloToggles ==
    /\ [](/\ soloedStem \in Stems \cup {NoSolo}
          /\ \A A \in Stems : soloUpdater(soloUpdater(NoSolo, A), A) = NoSolo)
    /\ [][\A A \in Stems :
             Solo(A) =>
                 /\ soloedStem' = IF soloedStem = A THEN NoSolo ELSE A
                 /\ mutedStems' = mutedStems]_vars

\* C12, its case: a stem is soloed while another one is muted
C12_Witness ==
    /\ soloedStem = "vocals"
    /\ mutedStems = {"drums"}
    /\ stemsAvailable

\* C13: whenever a stem is soloed in multi-track mode, exactly one loaded
\* stem has gain 1 and every other loaded stem has gain 0, whatever is muted
\* and whichever stems were loaded.  Soloing a stem whose task failed
\* silences every loaded stem, and a run of the mixer violates this.
C13_SoloLeavesOneAudible ==
    (stemsAvailable /\ soloedStem # NoSolo) =>
        /\ Cardinality({s \in DOMAIN gainsRef : gainsRef[s].value = 1}) = 1
        /\ \A s \in DOMAIN gainsRef : gainsRef[s].value \in {0, 1}

\* C14: toggleMute(s) flips the membership of s in mutedStems and of no other
\* stem and leaves soloedStem alone; toggling s twice gives mutedStems back.
C14_ToggleMuteFlips ==
    /\ [](\A s \in Stems :
             toggleMuteUpdater(toggleMuteUpdater(mutedStems, s), s) = mutedStems)
    /\ [][\A s \in Stems :
             ToggleMute(s) =>
                 /\ \A x \in Stems :
                       (x \in mutedStems') <=>
                           IF x = s THEN x \notin mutedStems ELSE x \in mutedStems
                 /\ soloedStem' = soloedStem]_vars

\* C14, its case: two stems are muted while a third one is soloed
C14_Witness ==
    /\ mutedStems = {"bass", "piano"}
    /\ soloedStem = "guitar"

\* C15: unmuteAll() ends with mutedStems empty and no stem soloed, and in
\* multi-track mode with every gain at 1.
C15_UnmuteAllClears ==
    [][UnmuteAll =>
          /\ mutedStems' = {}
          /\ soloedStem' = NoSolo
          /\ stemsAvailable' =>
                \A s \in DOMAIN gainsRef' : gainsRef'[s].value = 1]_vars

\* C15, its case: four stems are loaded, nothing is muted or soloed, and all
\* four gains are 1
C15_Witness ==
    /\ stemsAvailable
    /\ mutedStems = {}
    /\ soloedStem = NoSolo
    /\ DOMAIN gainsRef = Stems \ {"drums", "bass"}
    /\ \A s \in DOMAIN gainsRef : gainsRef[s].value = 1

\* what the hook returns to its caller, the functions aside
Interface ==
    <<isPlaying, currentTime, duration, isLoading, stemsAvailable, mutedStems, soloedStem>>

\* C21: when every stem failed and the mixed audio cannot be fetched or
\* decoded either, the failure is surfaced: the step on which the current
\* fallback element fails raises an error or changes what the hook returns,
\* so that the state differs from that of an armed fallback
C21_FallbackFailureIsSurfaced ==
    [][\A l \in DOMAIN audios :
          (AudioError(l) /\ l = audioRef) =>
              ((raised' /\ ~raised) \/ Interface' # Interface)]_vars

\* the playback position of the transport in use: offset + (now - startedAt)
\* while playing and the stored offset while paused; the stream's own
\* position in the fallback
Position ==
    IF stemsAvailable
    THEN IF isPlaying /\ ctxRef # 0 THEN Plus(offsetRef, Elapsed) ELSE offsetRef
    ELSE IF audioRef # 0 THEN audios[audioRef].currentTime ELSE 0

\* C22: skipForward() is seek(p + Skip) and skipBackward() is seek(p - Skip),
\* p being the playback position: offset + (now - startedAt) while playing
\* and exactly the stored offset while paused
C22_SkipIsSeekFromPosition ==
    [][/\ SkipForward => Seek(Plus(Position, Skip))
       /\ SkipBackward => Seek(Plus(Position, 0 - Skip))]_vars

\* the transport in use reports the end of its track and playback stops
TrackEnds ==
    /\ isPlaying
    /\ ~isPlaying'
    /\ \/ SourceEnded
       \/ \E l \in DOMAIN audios : l = audioRef /\ AudioEnded(l)

\* C23: the caller cannot observe which transport was selected: when a track
\* that was played runs to its end, both transports expose isPlaying = FALSE
\* and the position reset to 0
C23_TransportsLookAlike ==
    [][TrackEnds => (~isPlaying' /\ currentTime' = 0)]_vars

\* the tasks of load number l have all settled
TasksSettled(l) == tasks[l].fulfilled \cup tasks[l].rejected = Stems

\* C24: load() decides between the stem bank and the fallback only after all
\* six tasks have settled: a step on which a task settles changes nothing of
\* the player and leaves the other tasks as they are, and the step that
\* decides is taken with no task pending, makes the bank available exactly
\* when some task was fulfilled, and keeps every fulfilled stem
C24_DecidesAfterAllSettled ==
    [][\A l \in 1..Len(loads) :
          /\ (loads[l] = "pending" /\ loads'[l] = "pending") =>
                /\ tasks[l].fulfilled \subseteq tasks'[l].fulfilled
                /\ tasks[l].rejected \subseteq tasks'[l].rejected
                /\ tasks'[l] # tasks[l] =>
                      UNCHANGED <<stateVars, mixerVars, refVars, audios, openCtx>>
          /\ (loads[l] = "pending" /\ loads'[l] = "settled") =>
                /\ TasksSettled(l)
                /\ stemsAvailable' = (tasks[l].fulfilled # {})
                /\ stemsAvailable' => DOMAIN buffersRef' = tasks[l].fulfilled
                /\ ~stemsAvailable' => audioRef' = l]_vars

\* one task was rejected and one fulfilled while others are pending, and
\* load() is still waiting
C24_Witness ==
    \E l \in 1..Len(loads) :
        /\ loads[l] = "pending"
        /\ tasks[l].rejected # {}
        /\ tasks[l].fulfilled # {}
        /\ ~TasksSettled(l)
        /\ isLoading
        /\ ~stemsAvailable
        /\ audioRef = 0

\* C25: once the bank is available, the set of loaded stems (the buffers and
\* the gain channels) does not change until load() is called again
C25_LoadedStemsFixedUntilLoad ==
    [][(stemsAvailable /\ Len(loads') = Len(loads)) =>
          (buffersRef' = buffersRef /\ DOMAIN gainsRef' = DOMAIN gainsRef)]_vars

LoadCalled == Len(loads') = Len(loads) + 1

\* C27: load() discards the state of the session before it: immediately after
\* the call nothing plays, the position, the duration and the stored offset
\* are 0, no stem is muted or soloed, the stem sources are stopped, no frame
\* is pending, and the fallback stream of the session before is paused and
\* dropped
C27_LoadDiscardsSession ==
    [][LoadCalled =>
          /\ ~isPlaying'
          /\ currentTime' = 0
          /\ duration' = 0
          /\ offsetRef' = 0
          /\ mutedStems' = {}
          /\ soloedStem' = NoSolo
          /\ sourcesRef' = NoMap
          /\ firstSource' = Null
          /\ rafRef' = Null
          /\ audioRef' = 0
          /\ audioRef # 0 => audios'[audioRef].paused]_vars

\* load() was just called on a session that was playing after a seek with a
\* stem silenced: its sources were stopped, its gains are as they were left
C27_Witness ==
    /\ Len(loads) = 2
    /\ loads[2] = "pending"
    /\ isLoading
    /\ endedQueue # << >>
    /\ startTimeRef > 0
    /\ \E stem \in DOMAIN gainsRef : gainsRef[stem].value = 0
    /\ offsetRef = 0
    /\ sourcesRef = NoMap

\* the step is a call of the mixer
MixerCall ==
    \/ \E stem \in Stems : ToggleMute(stem)
    \/ UnmuteAll
    \/ \E stem \in Stems \cup {NoSolo} : Solo(stem)

\* the step is a call of the transport
TransportCall ==
    \/ Play
    \/ Pause
    \/ \E time \in SeekTargets : Seek(time)
    \/ SkipForward
    \/ SkipBackward

\* the mixer leaves the transport alone and the transport the mixer
C28_CallsKeepTheirFrame ==
    [][/\ MixerCall =>
            UNCHANGED <<isPlaying, offsetRef, startTimeRef, sourcesRef, firstSource>>
       /\ TransportCall => UNCHANGED <<mutedStems, soloedStem>>]_vars

\* C28: toggleMute, solo and unmuteAll never change isPlaying, the stored
\* offset, the clock snapshot or the active sources; play, pause, seek,
\* skipForward and skipBackward never change muted or soloed; and the stored
\* offset, muted and soloed change only on a call of play, pause, seek, skip,
\* mute, solo or load, or when a source that played to its end resets the
\* position
C28_FrameEffects ==
    [][/\ MixerCall =>
            UNCHANGED <<isPlaying, offsetRef, startTimeRef, sourcesRef, firstSource>>
       /\ TransportCall => UNCHANGED <<mutedStems, soloedStem>>
       /\ offsetRef' # offsetRef =>
            (TransportCall \/ LoadCalled \/ SourceEnded)
       /\ <<mutedStems, soloedStem>>' # <<mutedStems, soloedStem>> =>
            (MixerCall \/ LoadCalled)]_vars

\* the source of the stem was started, was not stopped, has not played its
\* buffer to the end, and its AudioContext is open
Sounding(stem) ==
    /\ stem \in DOMAIN sourcesRef
    /\ ctxRef # 0
    /\ ctxRef \in openCtx
    /\ Elapsed < StemDuration(stem) - sourcesRef[stem].offset

\* C29: pause() and load() leave no stem source active, and in every state
\* with isPlaying = FALSE no stem source is sounding
C29_SilentWhenNotPlaying ==
    /\ [](~isPlaying => \A stem \in Stems : ~Sounding(stem))
    /\ [][(Pause \/ LoadCalled) => \A stem \in Stems : ~Sounding(stem)']_vars

\* C30: at every moment at most one AudioContext made by the player is open
C30_OneOpenContext == Cardinality(openCtx) <= 1

\* C31: the polling loop has at most one pending frame callback; while the
\* component is mounted a frame is pending exactly when isPlaying is true;
\* pause(), load(), the end of the track and the unmount leave no frame
\* pending, so that the loop updates currentTime no more, and none is pending
\* after the unmount
C31_OneLoopWhilePlaying ==
    /\ [](Len(frames) <= 1)
    /\ [](mounted => (isPlaying <=> frames # << >>))
    /\ [](~mounted => frames = << >>)
    /\ [][(Pause \/ LoadCalled \/ TrackEnds \/ Unmount) => frames' = << >>]_vars

\* the component was unmounted while the stems played and the loop had
\* reported a position: the sources were stopped and the frame cancelled
C31_Witness ==
    /\ ~mounted
    /\ isPlaying
    /\ stemsAvailable
    /\ currentTime > 0
    /\ endedQueue # << >>
    /\ rafRef = Null
    /\ frames = << >>

\* C32: the completion event of a source that was stopped by pause(), seek()
\* or load() never resets the position and never alters isPlaying: the
\* stored offset, the reported position and isPlaying are as before it
C32_StoppedSourceEventIsInert ==
    [][StoppedSourceEnded => UNCHANGED <<isPlaying, offsetRef, currentTime>>]_vars

\* C33: pause() called while the multi-track transport is not playing leaves
\* the stored offset and the reported position as they are, however much
\* clock time has passed
C33_PauseIsIdempotent ==
    [][(Pause /\ stemsAvailable /\ ~isPlaying) =>
          UNCHANGED <<offsetRef, currentTime>>]_vars

\* C34: play() called while the multi-track transport is already playing does
\* not move the playback position, and there is still exactly one source
\* per loaded stem
C34_PlayWhilePlayingKeepsPosition ==
    [][(Play /\ stemsAvailable /\ isPlaying /\ ctxRef # 0 /\ ~raised') =>
          /\ Position' = Position
          /\ DOMAIN sourcesRef' = DOMAIN buffersRef]_vars

\* the value, when it is a number, lies between 0 and the duration
InTrack(x) == ~IsNaN(x) => (0 <= x /\ x <= duration)

\* C35: in every reachable state 0 <= currentTime <= duration and
\* 0 <= stored offset <= duration (stated of the values that are numbers:
\* a seek target that is not one is the case of C4)
C35_PositionWithinTrack == InTrack(currentTime) /\ InTrack(offsetRef)

\* C36: isLoading is true from the call of load() until that load has armed
\* a transport: it is never false while the most recent load() is in flight
C36_LoadingWhileLatestInFlight ==
    (Len(loads) > 0 /\ loads[Len(loads)] = "pending") => isLoading

\* ------------------------------------------------------------------------
\* Claims about useAnalysis
\* ------------------------------------------------------------------------

\* the poll loops that still issue requests
ActiveLoops == {c \in DOMAIN polls : polls[c].running /\ ~polls[c].aborted}

\* the step is the answer, or the failure, of a request of submission s:
\* of its POST or of a request of one of its poll loops
AnswerOf(s) ==
    \/ SubmitResolves(s)
    \/ SubmitRejects(s)
    \/ \E c \in DOMAIN polls :
          /\ polls[c].id = s
          /\ PollFails(c) \/ \E data \in JobResponse : PollResponse(c, data)

\* C37: once submit() has been called again, no answer that belongs to an
\* earlier submission changes status, progress, result, error or jobId, and
\* at most one poll loop is active at any time
C37_OnlyLatestSubmissionActs ==
    /\ [](Cardinality(ActiveLoops) <= 1)
    /\ [][\A s \in 1..MaxSubmits :
             (s < Len(submits) /\ AnswerOf(s)) => UNCHANGED analysis]_vars

\* C38: whenever error is non-null the hook is not loading
C38_ErrorMeansNotLoading ==
    analysis.error # NullStr => ~AnalysisIsLoading

\* C39: a poll loop whose request is answered with a terminal status
\* (complete or failed) has ended and issues no further request
C39_NoRequestAfterTerminal ==
    [][\A c \in DOMAIN polls : \A data \in JobResponse :
          (data.status \in Terminal /\ PollResponse(c, data))
              => (~polls'[c].running /\ polls'[c].requests = polls[c].requests)]_vars

\* ------------------------------------------------------------------------
\* Claims about useBeatSync
\* ------------------------------------------------------------------------

\* the linear scan: the last index (0-based) whose key is <= t, or -1
LastAtOrBefore(keys, t) ==
    LET S == {i \in 1..Len(keys) : keys[i] <= t}
    IN  IF S = {} THEN -1 ELSE Max(S) - 1

BeatTimes(beats) == [i \in 1..Len(beats) |-> beats[i].time]

BarStarts(bars) == [i \in 1..Len(bars) |-> bars[i].start]

\* C5: on every beat sequence sorted by time (ties included) and every time,
\* binarySearchFloor returns the index a linear scan for the last beat with
\* time <= t returns: -1 (beat_num 0) on an empty sequence or before the
\* first beat, the highest index among equal times, the last index at or
\* after the last beat.
C5_FloorIsLinearScan ==
    LET b == syncProps.beats
        t == syncProps.currentTime
    IN  /\ sync.currentBeatIdx = LastAtOrBefore(BeatTimes(b), t)
        /\ (Len(b) = 0 \/ (Len(b) > 0 /\ t < b[1].time))
              => sync.currentBeatIdx = -1 /\ sync.currentBeatNum = 0
        /\ \A i \in 1..Len(b) : b[i].time = t => sync.currentBeatIdx >= i - 1
        /\ (Len(b) > 0 /\ t >= b[Len(b)].time) => sync.currentBeatIdx = Len(b) - 1

\* a tie at the queried time, after an earlier beat: the search took the
\* later of the two equal beats
C5_Witness ==
    LET b == syncProps.beats
    IN  /\ Len(b) = 3
        /\ b[1].time < b[2].time
        /\ b[2].time = b[3].time
        /\ syncProps.currentTime = b[2].time
        /\ sync.currentBeatIdx = 2
        /\ sync.currentBeat = b[3]

\* C6: on every bar sequence sorted by start and every time, currentBarNum
\* is floor(i / 2) for the greatest i with bars[i].start <= t, and 0 when
\* there is none; bars starting at 0, 2, 4 and t = 3 give cycle 0.
C6_BarCycle ==
    LET i == LastAtOrBefore(BarStarts(syncProps.bars), syncProps.currentTime)
    IN  /\ sync.currentBarNum = IF i < 0 THEN 0 ELSE i \div 2
        /\ (syncProps.bars = ScenarioBars /\ syncProps.currentTime = 3)
              => sync.currentBarNum = 0

C6_Witness ==
    /\ syncProps.bars = ScenarioBars
    /\ syncProps.currentTime = 3
    /\ LastAtOrBefore(BarStarts(syncProps.bars), syncProps.currentTime) = 1
    /\ sync.currentBarNum = 0

\* the index of the bar the time lies in (-1 before the first bar) and the
\* bar-pair cycle it belongs to
BarIdxAt(p) == LastAtOrBefore(BarStarts(p.bars), p.currentTime)

CycleAt(p) == BarIdxAt(p) \div 2

\* from one render to the next: the time did not go back and stays within
\* the same pair of bars
SameCycleStep ==
    /\ BarIdxAt(syncProps) >= 0
    /\ syncProps'.currentTime >= syncProps.currentTime
    /\ CycleAt(syncProps') = CycleAt(syncProps)

\* from one render to the next: the time arrives on the first instant of a
\* pair of bars it was not in
CycleStartStep ==
    /\ BarIdxAt(syncProps') >= 0
    /\ BarIdxAt(syncProps') % 2 = 0
    /\ syncProps'.currentTime = syncProps'.bars[BarIdxAt(syncProps') + 1].start
    /\ (BarIdxAt(syncProps) < 0 \/ CycleAt(syncProps') > CycleAt(syncProps))

MonotoneAndWraps ==
    /\ SameCycleStep => sync'.currentSubdivision >= sync.currentSubdivision
    /\ CycleStartStep => sync'.currentSubdivision = 0

\* an 8-count grid: beat_num counts 1..8 and starts over, count 1 on the
\* start of every even-indexed bar and count 5 on that of every odd one
EightCountGrid(p) ==
    /\ \A i \in 1..Len(p.beats) : p.beats[i].beat_num \in 1..8
    /\ \A i \in 1..(Len(p.beats) - 1) :
          p.beats[i + 1].beat_num = (p.beats[i].beat_num % 8) + 1
    /\ \A k \in 1..Len(p.bars) : \E i \in 1..Len(p.beats) :
          /\ p.beats[i].time = p.bars[k].start
          /\ p.beats[i].beat_num = IF (k - 1) % 2 = 0 THEN 1 ELSE 5

\* C7 as stated: on every grid of the data model (beat_num counting 1..N per
\* bar, N = 4 as well as 8), currentSubdivision does not decrease while the
\* time advances within one pair of bars, and is 0 at the start of the next.
C7_MonotoneInCycle_AsStated == [][MonotoneAndWraps]_vars

\* C7 amended: the same, on the grids numbered 1..8 across each pair of bars
\* (count 1 on the first bar of the pair).
C7_MonotoneInEightCount ==
    [][EightCountGrid(syncProps) => MonotoneAndWraps]_vars

\* an 8-count grid late in its first pair of bars (slot 15), and one at the
\* first instant of its second pair (slot 0 again)
C7_Witness ==
    /\ EightCountGrid(syncProps)
    /\ CycleAt(syncProps) = 1
    /\ BarIdxAt(syncProps) = 2
    /\ syncProps.currentTime = syncProps.bars[3].start
    /\ sync.currentBeatNum = 1
    /\ sync.currentSubdivision = 0

\* C8: for every beat sequence, whatever its beat_num values (0 and values
\* above 8 included), and every time, currentSubdivision is in 0..15.
C8_SubdivisionInRange == sync.currentSubdivision \in 0..15

\* a located beat numbered above 8: the clamp to 15 acted
C8_Witness ==
    /\ sync.currentBeatIdx >= 0
    /\ sync.currentBeatNum = 9
    /\ sync.currentSubdivision = 15

\* C9: for a located beat i numbered b >= 1, currentSubdivision is
\* min(2(b-1)+1, 15) when beat i+1 exists and t is at or past the midpoint
\* of the two, and min(2(b-1), 15) otherwise (the last beat has no off-beat
\* slot; the midpoint itself is off-beat).
C9_SubdivisionSlots ==
    LET b == syncProps.beats
        t == syncProps.currentTime
        i == sync.currentBeatIdx
        n == sync.currentBeatNum
    IN  (i >= 0 /\ n >= 1) =>
          IF i + 2 <= Len(b) /\ 2 * t >= b[i + 1].time + b[i + 2].time
          THEN sync.currentSubdivision = Min2(2 * (n - 1) + 1, 15)
          ELSE sync.currentSubdivision = Min2(2 * (n - 1), 15)

\* the time is exactly the midpoint of the located beat and the next one,
\* and the slot is the off-beat one
C9_Witness ==
    LET b == syncProps.beats
        i == sync.currentBeatIdx
    IN  /\ i >= 0
        /\ i + 2 <= Len(b)
        /\ b[i + 1].beat_num = 1
        /\ b[i + 1].time < b[i + 2].time
        /\ 2 * syncProps.currentTime = b[i + 1].time + b[i + 2].time
        /\ sync.currentSubdivision = 1

\* C10: with no beat at or before the time (empty sequence, or a time before
\* the first beat) the hook reports currentBeat = null, currentBeatNum = 0
\* and currentSubdivision = 0; with no bar at or before it, currentBarNum = 0.
C10_BeforeFirst ==
    LET b == syncProps.beats
        r == syncProps.bars
        t == syncProps.currentTime
    IN  /\ (Len(b) = 0 \/ (Len(b) > 0 /\ t < b[1].time))
              => /\ sync.currentBeat = Null
                 /\ sync.currentBeatNum = 0
                 /\ sync.currentSubdivision = 0
        /\ (Len(r) = 0 \/ (Len(r) > 0 /\ t < r[1].start))
              => sync.currentBarNum = 0

\* beats and bars both present, the time before the first of each
C10_Witness ==
    LET b == syncProps.beats
        r == syncProps.bars
        t == syncProps.currentTime
    IN  /\ Len(b) > 0 /\ t < b[1].time
        /\ Len(r) > 0 /\ t < r[1].start
        /\ sync.currentBeat = Null
        /\ sync.currentBarNum = 0

====
